---- MODULE Spec2Model ----
(***************************************************************************)
(* Sigma-protocol proofs of knowledge over prime-order groups: the atomic  *)
(* discrete-logarithm representation proof (compiler/DLRep.py), its And    *)
(* composition (And_proof.py) and the power-of-two range proof             *)
(* (zkbuilder/primitives/rangeproof.py).                                   *)
(*                                                                         *)
(* A group of prime order q is modelled as Z_q written additively: a point *)
(* is [group, v] with v the discrete logarithm of the point relative to    *)
(* the group's generator, so the identity ("infinite") has v = 0, point    *)
(* addition adds the v's mod q and scalar multiplication multiplies mod q. *)
(***************************************************************************)
EXTENDS Integers, Sequences, FiniteSets, TLC

VARIABLES
    stmt,         \* the statement the protocol run is about
    prover,       \* the prover object derived from stmt
    verifier,     \* the verifier object derived from stmt
    pc,           \* position of the script driving the run
    commitment,   \* the value returned by prover.commit
    challenge,    \* the value returned by verifier.send_challenge
    response,     \* the value returned by prover.compute_response
    result,       \* the value returned by verifier.verify
    tampered,     \* the tampered response shown to the verifier, and the outcome
    sim,          \* the transcript returned by simulate_proof, with its arguments
    extra,        \* the call that raised or was made out of the script's order, and its outcome
    heap,         \* the statement objects constructed so far, in order of creation
    last,         \* the last constructor call: its arguments and its outcome
    rproof,       \* the range statement on the prover's side (proof in main)
    vproof,       \* the range statement on the verifier's side (proof_prime)
    rpc,          \* position of the script driving the range proof
    wire,         \* the precommitment on its way from the prover to the verifier
    adequate,     \* the value returned by check_adequate_lhs
    store,        \* the Python list objects that exist: store[id] is what list id holds
    objs,         \* the statement objects that exist; their list attributes are list ids
    made,         \* what the lists of each statement object held when its constructor returned
    ret,          \* the last method call on a statement object and its outcome
    runs          \* the protocol runs that share one statement object

protocolVars == <<stmt, prover, verifier, pc, commitment, challenge, response, result,
                  tampered, sim, extra>>

buildVars == <<heap, last>>

rangeVars == <<rproof, vproof, rpc, wire, adequate>>

deriveVars == <<store, objs, made, ret>>

vars == <<protocolVars, buildVars, rangeVars, deriveVars, runs>>

-----------------------------------------------------------------------------
(* Bounds of the model *)

\* most terms x_i * G_i in one DLRep statement
MaxTerms == 2
\* challenges are drawn from 0 .. MaxChal (the code draws 128 random bits)
MaxChal == 4

-----------------------------------------------------------------------------
(* The group adapter (petlib EcGroup / EcPt / Bn) *)

Groups == {1, 2}

\* G.order(): both orders are prime
Order(G) == IF G = 1 THEN 3 ELSE 2

\* the value Python's None has when a slot holds no point, commitment or response
None == [none |-> TRUE]

\* the challenge slot before a challenge was stored
NoChallenge == -1

Point(G, n) == [group |-> G, v |-> n % Order(G)]

Points(G) == {Point(G, n) : n \in 0 .. Order(G) - 1}

AllPoints == UNION {Points(G) : G \in Groups}

\* G.infinite()
infinite(G) == Point(G, 0)

\* a + b on EcPt
PtAdd(a, b) == Point(a.group, a.v + b.v)

\* a - b on EcPt
PtSub(a, b) == Point(a.group, a.v - b.v)

\* s * P for an integer (Bn) s of any sign or size and an EcPt P
PtMul(s, P) == Point(P.group, s * P.v)

Min(a, b) == IF a < b THEN a ELSE b

Names == {"x", "y"}

NameSet(names) == {names[i] : i \in DOMAIN names}

-----------------------------------------------------------------------------
(* compiler/DLRep.py *)

\* raise_powers(tab_g, response): zip stops at the shorter list
RECURSIVE SumProducts(_, _, _, _)
SumProducts(scalars, pts, n, acc) ==
    IF n = 0 THEN acc
    ELSE SumProducts(scalars, pts, n - 1, PtAdd(acc, PtMul(scalars[n], pts[n])))

\* raise_powers with the zip cut one term short
Mut_raise_powers_short(tab_g, resp) ==
    SumProducts(resp, tab_g, Min(Len(resp), Len(tab_g)) - 1, infinite(tab_g[1].group))

raise_powers(tab_g, resp) ==
    SumProducts(resp, tab_g, Min(Len(resp), Len(tab_g)), infinite(tab_g[1].group))

\* recompute_commitment adding challenge * lhs
Mut_recompute_commitment_plus(self, c, responses) ==
    PtAdd(raise_powers(self.generators, responses), PtMul(c, self.lhs))

\* DLRepProof.recompute_commitment(self, challenge, responses); self is a
\* statement, a verifier or a prover: only generators and lhs are read
recompute_commitment(self, c, responses) ==
    PtAdd(raise_powers(self.generators, responses), PtMul(-c, self.lhs))

\* the outcome of a call: err is "none" when the call returned, otherwise the
\* Python exception it raised; value is what it returned
Returned(v) == [err |-> "none", value |-> v]

Raised(e) == [err |-> e, value |-> None]

\* DLRepProof.__init__ / initialize: rightSide.pts, the names of
\* rightSide.secrets and lhs
DLRepProof(lhs, generators, secret_names) ==
    IF Len(generators) = 0 THEN Raised("Exception")
    ELSE IF Len(secret_names) # Len(generators) THEN Raised("Exception")
    ELSE IF \E i \in DOMAIN generators : generators[i].group # generators[1].group
         THEN Raised("Exception")
    ELSE Returned([kind |-> "DLRep", generators |-> generators,
                   secret_names |-> secret_names, lhs |-> lhs, simulate |-> FALSE])

\* DLRepProver.__init__
DLRepProver(generators, secret_names, secret_values, lhs) ==
    [kind |-> "DLRep", generators |-> generators, secret_names |-> secret_names,
     secret_values |-> secret_values, lhs |-> lhs,
     has_ks |-> FALSE, ks |-> <<>>, group_order |-> 0]

\* DLRepVerifier.__init__; commitment and challenge are the slots the
\* Verifier base class fills in send_challenge
DLRepVerifier(generators, secret_names, lhs) ==
    [kind |-> "DLRep", generators |-> generators, secret_names |-> secret_names,
     lhs |-> lhs, commitment |-> None, challenge |-> NoChallenge]

\* DLRepProof.get_verifier
DLRep_get_verifier(self) == DLRepVerifier(self.generators, self.secret_names, self.lhs)

\* DLRepProof.get_simulator
get_simulator(self) == DLRepProver(self.generators, self.secret_names, <<>>, self.lhs)

\* get_prover comparing only the number of keys with the number of names
Mut_get_prover_count_only(self, secrets_dict) ==
    IF self.simulate \/ DOMAIN secrets_dict = {} THEN Raised("NameError")
    ELSE IF Cardinality(NameSet(self.secret_names)) # Cardinality(DOMAIN secrets_dict)
         THEN Raised("Exception")
    ELSE Returned(DLRepProver(self.generators, self.secret_names, secrets_dict, self.lhs))

\* DLRepProof.get_prover: the simulate path calls the undefined global name
\* get_verifier, which raises NameError
DLRep_get_prover(self, secrets_dict) ==
    IF self.simulate \/ DOMAIN secrets_dict = {} THEN Raised("NameError")
    ELSE IF Cardinality(NameSet(self.secret_names)) # Cardinality(DOMAIN secrets_dict)
         THEN Raised("Exception")
    ELSE IF DOMAIN secrets_dict # NameSet(self.secret_names) THEN Raised("Exception")
    ELSE Returned(DLRepProver(self.generators, self.secret_names, secrets_dict, self.lhs))

\* the order the randomizer of name sec is drawn from: get_randomizers
\* overwrites, so the last term carrying the name decides
LastIndex(names, sec) ==
    CHOOSE i \in DOMAIN names :
        names[i] = sec /\ \A j \in DOMAIN names : names[j] = sec => j <= i

MaxOrder == CHOOSE q \in {Order(G) : G \in Groups} : \A G \in Groups : Order(G) <= q

\* DLRepProver.get_randomizers: every dict the random draws can produce
DLRep_get_randomizers(self) ==
    {d \in [NameSet(self.secret_names) -> 0 .. MaxOrder - 1] :
        \A sec \in DOMAIN d :
            d[sec] < Order(self.generators[LastIndex(self.secret_names, sec)].group)}

\* commit without the check of the secret values
Mut_commit_no_check(self, randomizers_dict) ==
    LET order == Order(self.generators[1].group)
        withOrder == [self EXCEPT !.group_order = order]
    IN  IF ~ (NameSet(self.secret_names) \subseteq DOMAIN randomizers_dict)
        THEN [err |-> "KeyError", value |-> None, prover |-> withOrder]
        ELSE LET ks == [i \in DOMAIN self.secret_names |->
                           randomizers_dict[self.secret_names[i]]]
             IN  [err |-> "none",
                  value |-> SumProducts(ks, self.generators,
                                        Min(Len(ks), Len(self.generators)),
                                        infinite(self.generators[1].group)),
                  prover |-> [withOrder EXCEPT !.ks = ks, !.has_ks = TRUE]]

\* DLRepProver.commit(randomizers_dict) with the dict given or drawn by the
\* caller: the outcome and the prover afterwards
DLRep_commit(self, randomizers_dict) ==
    IF DOMAIN self.secret_values = {}
    THEN [err |-> "Exception", value |-> None, prover |-> self]
    ELSE LET order == Order(self.generators[1].group)
             withOrder == [self EXCEPT !.group_order = order]
         IN  IF ~ (NameSet(self.secret_names) \subseteq DOMAIN randomizers_dict)
             THEN [err |-> "KeyError", value |-> None, prover |-> withOrder]
             ELSE LET ks == [i \in DOMAIN self.secret_names |->
                                randomizers_dict[self.secret_names[i]]]
                  IN  [err |-> "none",
                       value |-> SumProducts(ks, self.generators,
                                             Min(Len(ks), Len(self.generators)),
                                             infinite(self.generators[1].group)),
                       prover |-> [withOrder EXCEPT !.ks = ks, !.has_ks = TRUE]]

\* compute_response answering k - c * x
Mut_compute_response_minus(self, c) ==
    IF ~ self.has_ks THEN Raised("AttributeError")
    ELSE Returned([i \in DOMAIN self.ks |->
            (self.ks[i] - ((self.secret_values[self.secret_names[i]] * c)
                              % self.group_order)) % self.group_order])

\* compute_response on a prover whose ks start as the empty list
Mut_compute_response_default_ks(self, c) ==
    IF ~ self.has_ks THEN Returned(<<>>)
    ELSE IF \E i \in DOMAIN self.ks : self.secret_names[i] \notin DOMAIN self.secret_values
         THEN Raised("KeyError")
    ELSE Returned([i \in DOMAIN self.ks |->
            (((self.secret_values[self.secret_names[i]] * c) % self.group_order)
                + self.ks[i]) % self.group_order])

\* DLRepProver.compute_response(challenge)
DLRep_compute_response(self, c) ==
    IF ~ self.has_ks THEN Raised("AttributeError")
    ELSE IF \E i \in DOMAIN self.ks : self.secret_names[i] \notin DOMAIN self.secret_values
         THEN Raised("KeyError")
    ELSE Returned([i \in DOMAIN self.ks |->
            (((self.secret_values[self.secret_names[i]] * c) % self.group_order)
                + self.ks[i]) % self.group_order])

\* simulate_proof building the commitment from the responses alone
Mut_simulate_proof_no_lhs(self, responses_dict, c, drawn_dict, drawn_challenge) ==
    LET dict == IF responses_dict = None THEN drawn_dict ELSE responses_dict
        chal == IF c = NoChallenge THEN drawn_challenge ELSE c
        resp == [i \in DOMAIN self.secret_names |-> dict[self.secret_names[i]]]
    IN  [commitment |-> raise_powers(self.generators, resp),
         challenge |-> chal,
         response |-> resp]

\* DLRepProver.simulate_proof(responses_dict, challenge): an argument left
\* out is None / NoChallenge and is replaced by the draw (get_randomizers(),
\* chal_128bits())
simulate_proof(self, responses_dict, c, drawn_dict, drawn_challenge) ==
    LET dict == IF responses_dict = None THEN drawn_dict ELSE responses_dict
        chal == IF c = NoChallenge THEN drawn_challenge ELSE c
        resp == [i \in DOMAIN self.secret_names |-> dict[self.secret_names[i]]]
    IN  [commitment |-> recompute_commitment(self, chal, resp),
         challenge |-> chal,
         response |-> resp]

-----------------------------------------------------------------------------
(* And_proof.py *)

\* the indices at which word occurs in the merged list of names (mydict[word])
IndicesOf(names, word) == {i \in DOMAIN names : names[i] = word}

FirstIndex(names, word) ==
    CHOOSE i \in IndicesOf(names, word) : \A j \in IndicesOf(names, word) : i <= j

\* the inner loop of check_groups for one word: some generator of the word is
\* not in the group of the word's first generator
GroupsDiffer(names, gens, word) ==
    \E i \in IndicesOf(names, word) :
        gens[i].group # gens[FirstIndex(names, word)].group

\* check_groups taking the first generator of the list as the reference of
\* every word
Mut_check_groups_first_generator(names, gens) ==
    IF \E i \in DOMAIN names : i > Len(gens) THEN Raised("IndexError")
    ELSE LET bad == {w \in NameSet(names) :
                        \E i \in IndicesOf(names, w) : gens[i].group # gens[1].group}
         IN  IF bad = {} THEN Returned(TRUE)
             ELSE [err |-> "Exception",
                   value |-> CHOOSE w \in bad : \A u \in bad :
                                FirstIndex(names, w) <= FirstIndex(names, u)]

\* check_groups(list_of_secret_names, list_of_generators): the dict is walked
\* in insertion order, so the first offending word is the one reported
check_groups(names, gens) ==
    IF \E i \in DOMAIN names : i > Len(gens) THEN Raised("IndexError")
    ELSE LET bad == {w \in NameSet(names) : GroupsDiffer(names, gens, w)}
         IN  IF bad = {} THEN Returned(TRUE)
             ELSE LET word == CHOOSE w \in bad : \A u \in bad :
                                  FirstIndex(names, w) <= FirstIndex(names, u)
                  IN  [err |-> "Exception", value |-> word]

\* get_secret_names() of a DLRep statement: a fresh list of the names in
\* term order
DLRep_get_secret_names(self) == self.secret_names

\* the group_generators of a DLRep statement: its generators in term order
DLRep_group_generators(self) == self.generators

\* AndProof.get_secret_names: the list the first child returns, extended by
\* the list of the second
RECURSIVE get_secret_names(_)
get_secret_names(self) ==
    IF self.kind = "DLRep" THEN DLRep_get_secret_names(self)
    ELSE get_secret_names(self.proof1) \o get_secret_names(self.proof2)

\* the group_generators attribute AndProof.get_generators copies from a child
ChildGenerators(child) ==
    IF child.kind = "DLRep" THEN DLRep_group_generators(child)
    ELSE child.group_generators

\* AndProof.get_generators
get_generators(self) == ChildGenerators(self.proof1) \o ChildGenerators(self.proof2)

\* AndProof.__init__(proof1, proof2)
AndProof(proof1, proof2) ==
    LET self0 == [kind |-> "And", proof1 |-> proof1, proof2 |-> proof2]
        group_generators == get_generators(self0)
        secret_names == get_secret_names(self0)
        chk == check_groups(secret_names, group_generators)
    IN  IF chk.err # "none" THEN chk
        ELSE Returned([kind |-> "And", proof1 |-> proof1, proof2 |-> proof2,
                       group_generators |-> group_generators,
                       secret_names |-> secret_names])

\* __and__ composing its operands in the other order
Mut_and_swapped(self, other) == AndProof(other, self)

\* Proof.__and__(self, other)
And__and__(self, other) == AndProof(self, other)

\* the dict sub_proof_prover hands to a child: the entries of secrets_dict
\* whose name the child uses
Restrict(secrets_dict, keys) ==
    [n \in DOMAIN secrets_dict \cap keys |-> secrets_dict[n]]

\* statement.get_prover(secrets_dict): DLRepProof.get_prover for a DLRep,
\* AndProof.get_prover for an And
RECURSIVE get_prover(_, _)
get_prover(self, secrets_dict) ==
    IF self.kind = "DLRep" THEN DLRep_get_prover(self, secrets_dict)
    ELSE LET r1 == get_prover(self.proof1,
                       Restrict(secrets_dict, NameSet(get_secret_names(self.proof1))))
         IN  IF r1.err # "none" THEN r1
             ELSE LET r2 == get_prover(self.proof2,
                       Restrict(secrets_dict, NameSet(get_secret_names(self.proof2))))
                  IN  IF r2.err # "none" THEN r2
                      ELSE Returned([kind |-> "And", prover1 |-> r1.value,
                                     prover2 |-> r2.value])

\* statement.get_verifier(): DLRepProof.get_verifier, AndProof.get_verifier;
\* commitment and and_challenge are set by AndProofVerifier.send_challenge
RECURSIVE get_verifier(_)
get_verifier(self) ==
    IF self.kind = "DLRep" THEN DLRep_get_verifier(self)
    ELSE [kind |-> "And", verifier1 |-> get_verifier(self.proof1),
          verifier2 |-> get_verifier(self.proof2),
          commitment |-> None, and_challenge |-> NoChallenge]

\* dict.update: d1 overwritten by d2
Update(d1, d2) ==
    [n \in DOMAIN d1 \cup DOMAIN d2 |-> IF n \in DOMAIN d2 THEN d2[n] ELSE d1[n]]

\* prover.get_randomizers(): DLRepProver.get_randomizers,
\* AndProofProver.get_randomizers; every dict the random draws can produce
RECURSIVE get_randomizers(_)
get_randomizers(self) ==
    IF self.kind = "DLRep" THEN DLRep_get_randomizers(self)
    ELSE {Update(d1, d2) : d1 \in get_randomizers(self.prover1),
                           d2 \in get_randomizers(self.prover2)}

\* AndProofProver.commit handing the second child randomizers of its own
RECURSIVE Mut_commit_second_own_randomizers(_, _)
Mut_commit_second_own_randomizers(self, randomizers_dict) ==
    IF self.kind = "DLRep" THEN DLRep_commit(self, randomizers_dict)
    ELSE LET own == [n \in DOMAIN randomizers_dict |->
                        (randomizers_dict[n] + 1) % MaxOrder]
             r1 == Mut_commit_second_own_randomizers(self.prover1, randomizers_dict)
         IN  IF r1.err # "none"
             THEN [err |-> r1.err, value |-> None,
                   prover |-> [self EXCEPT !.prover1 = r1.prover]]
             ELSE LET r2 == Mut_commit_second_own_randomizers(self.prover2, own)
                  IN  [err |-> r2.err,
                       value |-> IF r2.err # "none" THEN None
                                 ELSE [commitment1 |-> r1.value,
                                       commitment2 |-> r2.value],
                       prover |-> [self EXCEPT !.prover1 = r1.prover,
                                               !.prover2 = r2.prover]]

\* prover.commit(randomizers_dict=randomizers_dict) on a child or on the
\* root after its dict was drawn: DLRepProver.commit, AndProofProver.commit
RECURSIVE commit(_, _)
commit(self, randomizers_dict) ==
    IF self.kind = "DLRep" THEN DLRep_commit(self, randomizers_dict)
    ELSE LET r1 == commit(self.prover1, randomizers_dict)
         IN  IF r1.err # "none"
             THEN [err |-> r1.err, value |-> None,
                   prover |-> [self EXCEPT !.prover1 = r1.prover]]
             ELSE LET r2 == commit(self.prover2, randomizers_dict)
                  IN  [err |-> r2.err,
                       value |-> IF r2.err # "none" THEN None
                                 ELSE [commitment1 |-> r1.value,
                                       commitment2 |-> r2.value],
                       prover |-> [self EXCEPT !.prover1 = r1.prover,
                                               !.prover2 = r2.prover]]

\* prover.compute_response(challenge): DLRepProver.compute_response,
\* AndProofProver.compute_response
RECURSIVE compute_response(_, _)
compute_response(self, c) ==
    IF self.kind = "DLRep" THEN DLRep_compute_response(self, c)
    ELSE LET r1 == compute_response(self.prover1, c)
         IN  IF r1.err # "none" THEN r1
             ELSE LET r2 == compute_response(self.prover2, c)
                  IN  IF r2.err # "none" THEN r2
                      ELSE Returned([response1 |-> r1.value, response2 |-> r2.value])

\* Verifier.send_challenge(commitment) of the SigmaProtocol base class on a
\* DLRepVerifier: store the commitment and the drawn challenge c
DLRep_send_challenge(self, com, c) ==
    [self EXCEPT !.commitment = com, !.challenge = c]

\* AndProofVerifier.send_challenge keeping a challenge of its own instead of
\* the one its first child generated
RECURSIVE Mut_send_challenge_own(_, _, _)
Mut_send_challenge_own(self, com, c) ==
    IF self.kind = "DLRep" THEN DLRep_send_challenge(self, com, c)
    ELSE [self EXCEPT !.commitment = com,
                      !.and_challenge = (c + 1) % (MaxChal + 1),
                      !.verifier1 = Mut_send_challenge_own(self.verifier1,
                                                           com.commitment1, c)]

\* verifier.send_challenge(commitment) with c the challenge the first leaf
\* draws: the verifier afterwards (AndProofVerifier.send_challenge)
RECURSIVE send_challenge(_, _, _)
send_challenge(self, com, c) ==
    IF self.kind = "DLRep" THEN DLRep_send_challenge(self, com, c)
    ELSE [self EXCEPT !.commitment = com,
                      !.and_challenge = c,
                      !.verifier1 = send_challenge(self.verifier1, com.commitment1, c)]

\* Verifier.verify(response, commitment, challenge) of the SigmaProtocol base
\* class on a DLRepVerifier, None replaced by the stored value
DLRep_verify(self, resp, com, c) ==
    LET chal == IF c = NoChallenge THEN self.challenge ELSE c
        cmt == IF com = None THEN self.commitment ELSE com
    IN  recompute_commitment(self, chal, resp) = cmt

\* AndProofVerifier.verify checking the second child against commitment1
RECURSIVE Mut_verify_commitment1(_, _, _, _)
Mut_verify_commitment1(self, resp, com, c) ==
    IF self.kind = "DLRep" THEN DLRep_verify(self, resp, com, c)
    ELSE LET chal == IF c = NoChallenge THEN self.and_challenge ELSE c
             cmt == IF com = None THEN self.commitment ELSE com
         IN  /\ Mut_verify_commitment1(self.verifier1, resp.response1,
                                       cmt.commitment1, chal)
             /\ Mut_verify_commitment1(self.verifier2, resp.response2,
                                       cmt.commitment1, chal)

\* verifier.verify(responses, commitment, challenge): AndProofVerifier.verify
RECURSIVE verify(_, _, _, _)
verify(self, resp, com, c) ==
    IF self.kind = "DLRep" THEN DLRep_verify(self, resp, com, c)
    ELSE LET chal == IF c = NoChallenge THEN self.and_challenge ELSE c
             cmt == IF com = None THEN self.commitment ELSE com
         IN  /\ verify(self.verifier1, resp.response1, cmt.commitment1, chal)
             /\ verify(self.verifier2, resp.response2, cmt.commitment2, chal)

-----------------------------------------------------------------------------
(* The protocol run: a script that derives a prover and a verifier from a   *)
(* statement and passes the three messages between them                      *)

\* no range proof is run
RangeIdle ==
    /\ rproof = None /\ vproof = None /\ rpc = "idle" /\ wire = None
    /\ adequate = None

\* no statement object is held for method calls, no runs share a statement
DeriveIdle ==
    /\ store = <<>> /\ objs = <<>> /\ made = <<>> /\ ret = None
    /\ runs = <<>>

\* sum of x_i * G_i for the witness values sv
Relation(generators, secret_names, sv) ==
    SumProducts([i \in DOMAIN secret_names |-> sv[secret_names[i]]], generators,
                Len(generators), infinite(generators[1].group))

\* every DLRep statement of n terms over group G that construction accepts,
\* with lhs any point of G
DLRepStatements(G, n) ==
    {DLRepProof(lhs, gens, names).value :
        lhs \in Points(G), gens \in [1 .. n -> Points(G)], names \in [1 .. n -> Names]}

\* the witness of st fits: every relation of the tree holds for sv
RECURSIVE Satisfies(_, _)
Satisfies(st, sv) ==
    IF st.kind = "DLRep"
    THEN /\ NameSet(st.secret_names) \subseteq DOMAIN sv
         /\ st.lhs = Relation(st.generators, st.secret_names, sv)
    ELSE Satisfies(st.proof1, sv) /\ Satisfies(st.proof2, sv)

\* most terms in one conjunct of a composed statement
MaxAndTerms == 1

\* the points group.generator() and group.hash_to_point() return: never the
\* identity
Generators(G) == Points(G) \ {infinite(G)}

\* the conjuncts of the example: the generators are G.generator() or hashed
\* points and lhs is computed from the secret values sv
AndLeaves(sv) ==
    UNION {{DLRepProof(Relation(gens, names, sv), gens, names).value :
                gens \in [1 .. n -> Generators(G)], names \in [1 .. n -> DOMAIN sv]} :
           G \in Groups, n \in 1 .. MaxAndTerms}

SecretDicts(names) == [NameSet(names) -> 0 .. MaxOrder - 1]

InitDLRep ==
    \E G \in Groups, n \in 1 .. MaxTerms :
      \E st \in DLRepStatements(G, n) :
        \E sv \in SecretDicts(st.secret_names) :
          /\ stmt = st
          /\ prover \in {get_prover(st, sv).value, get_simulator(st)}

InitAnd ==
    \E sv \in [Names -> 0 .. MaxOrder - 1] :
      \E a \in AndLeaves(sv), b \in AndLeaves(sv) :
        /\ AndProof(a, b).err = "none"
        /\ stmt = AndProof(a, b).value
        /\ prover = get_prover(stmt, Restrict(sv, NameSet(stmt.secret_names))).value

\* the nested statement (a & b) & b
InitNested ==
    \E sv \in [Names -> 0 .. MaxOrder - 1] :
      \E a \in AndLeaves(sv), b \in AndLeaves(sv) :
        /\ AndProof(a, b).err = "none"
        /\ stmt = AndProof(AndProof(a, b).value, b).value
        /\ prover = get_prover(stmt, Restrict(sv, NameSet(stmt.secret_names))).value

\* the run has not started and nothing else is going on
Fresh ==
    /\ verifier = get_verifier(stmt)
    /\ pc = "fresh"
    /\ commitment = None
    /\ challenge = NoChallenge
    /\ response = None
    /\ result = None
    /\ tampered = None
    /\ sim = None
    /\ extra = None
    /\ heap = <<>>
    /\ last = None
    /\ RangeIdle
    /\ DeriveIdle

Init ==
    /\ InitDLRep \/ InitAnd
    /\ Fresh

Challenges == 0 .. MaxChal

\* every randomizers_dict a caller can pass to commit: names may be missing
PassedDicts == UNION {[S -> 0 .. MaxOrder - 1] : S \in SUBSET Names}

\* the record of a call: its name, its argument, the exception it raised
\* ("none" when it returned), the value it returned and the prover before it
Call(name, arg, r, before) ==
    [call |-> name, arg |-> arg, err |-> r.err, value |-> r.value, before |-> before]

\* commitment = prover.commit()
Commit ==
    /\ pc = "fresh"
    /\ \E rd \in get_randomizers(prover) :
         LET r == commit(prover, rd)
         IN  /\ prover' = r.prover
             /\ commitment' = r.value
             /\ pc' = IF r.err = "none" THEN "committed" ELSE "raised"
             /\ extra' = IF r.err = "none" THEN extra ELSE Call("commit", None, r, prover)
    /\ UNCHANGED <<stmt, verifier, challenge, response, result, tampered, sim, buildVars, rangeVars, deriveVars, runs>>

\* challenge = verifier.send_challenge(commitment)
SendChallenge ==
    /\ pc = "committed"
    /\ \E c \in Challenges :
         /\ verifier' = send_challenge(verifier, commitment, c)
         /\ challenge' = c
    /\ pc' = "challenged"
    /\ UNCHANGED <<stmt, prover, commitment, response, result, tampered, sim, extra, buildVars, rangeVars, deriveVars, runs>>

\* response = prover.compute_response(challenge)
ComputeResponse ==
    /\ pc = "challenged"
    /\ LET r == compute_response(prover, challenge)
       IN  /\ response' = r.value
           /\ pc' = IF r.err = "none" THEN "responded" ELSE "raised"
    /\ UNCHANGED <<stmt, prover, verifier, commitment, challenge, result, tampered, sim, extra, buildVars, rangeVars, deriveVars, runs>>

\* verifier.verify(response)
Verify ==
    /\ pc = "responded"
    /\ result' = verify(verifier, response, None, NoChallenge)
    /\ pc' = "verified"
    /\ UNCHANGED <<stmt, prover, verifier, commitment, challenge, response, tampered, sim, extra, buildVars, rangeVars, deriveVars, runs>>

\* every response that differs from resp in one scalar, by a value that is
\* different modulo the group order; hit is the generator of the changed term
RECURSIVE Tamperings(_, _)
Tamperings(st, resp) ==
    IF st.kind = "DLRep"
    THEN LET q == Order(st.generators[1].group)
         IN  {[response |-> [resp EXCEPT ![p[1]] = p[2]], hit |-> st.generators[p[1]]] :
                p \in {pp \in (DOMAIN resp) \X (0 .. 2 * MaxOrder - 1) :
                         pp[2] % q # resp[pp[1]] % q}}
    ELSE {[response |-> [resp EXCEPT !.response1 = t.response], hit |-> t.hit] :
            t \in Tamperings(st.proof1, resp.response1)}
         \cup
         {[response |-> [resp EXCEPT !.response2 = t.response], hit |-> t.hit] :
            t \in Tamperings(st.proof2, resp.response2)}

\* after the run: verifier.verify(r) for a response r with one scalar replaced
VerifyTampered ==
    /\ pc = "verified"
    /\ stmt.kind = "DLRep"
    /\ result = TRUE
    /\ \E t \in Tamperings(stmt, response) :
         /\ t.response # response
         /\ tampered' = [response |-> t.response, hit |-> t.hit,
                         result |-> verify(verifier, t.response, None, NoChallenge)]
    /\ pc' = "reverified"
    /\ UNCHANGED <<stmt, prover, verifier, commitment, challenge, response, result, sim, extra, buildVars, rangeVars, deriveVars, runs>>

\* every responses_dict a caller can pass to simulate_proof
ResponseDicts(names) == [NameSet(names) -> 0 .. MaxOrder - 1]

\* prover.simulate_proof(responses_dict, challenge) on the prover that
\* get_simulator returned ("Only function a prover built with empty
\* secret_dict can use")
SimulateProof ==
    /\ pc = "fresh"
    /\ prover.kind = "DLRep"
    /\ DOMAIN prover.secret_values = {}
    /\ \E rd \in {None} \cup ResponseDicts(prover.secret_names),
          c \in {NoChallenge} \cup Challenges :
         \E drawn_dict \in IF rd = None THEN get_randomizers(prover) ELSE {None},
            drawn_challenge \in IF c = NoChallenge THEN Challenges ELSE {NoChallenge} :
           sim' = [transcript |-> simulate_proof(prover, rd, c, drawn_dict, drawn_challenge),
                   given_challenge |-> c,
                   given_dict |-> rd]
    /\ pc' = "simulated"
    /\ UNCHANGED <<stmt, prover, verifier, commitment, challenge, response, result, tampered, extra, buildVars, rangeVars, deriveVars, runs>>

\* verifier.verify(response, commitment, challenge) on the simulated transcript
VerifySimulated ==
    /\ pc = "simulated"
    /\ result' = verify(verifier, sim.transcript.response, sim.transcript.commitment,
                        sim.transcript.challenge)
    /\ pc' = "simverified"
    /\ UNCHANGED <<stmt, prover, verifier, commitment, challenge, response, tampered, sim, extra, buildVars, rangeVars, deriveVars, runs>>

Next ==
    \/ Commit
    \/ SendChallenge
    \/ ComputeResponse
    \/ Verify
    \/ VerifyTampered
    \/ SimulateProof
    \/ VerifySimulated

Spec == Init /\ [][Next]_vars

-----------------------------------------------------------------------------
(* The protocol run with the calls a script can also make: commit with a    *)
(* dict passed in, a second commit, compute_response before commit or a     *)
(* second time, and verify on a tampered response of an And                 *)

InitFull ==
    /\ InitDLRep \/ InitAnd \/ InitNested
    /\ Fresh

\* commitment = prover.commit(randomizers_dict=given)
CommitWith ==
    /\ pc = "fresh"
    /\ \E given \in PassedDicts :
         LET r == commit(prover, given)
         IN  /\ prover' = r.prover
             /\ commitment' = r.value
             /\ pc' = IF r.err = "none" THEN "committed" ELSE "raised"
             /\ extra' = IF r.err = "none" THEN extra ELSE Call("commit", given, r, prover)
    /\ UNCHANGED <<stmt, verifier, challenge, response, result, tampered, sim, buildVars, rangeVars, deriveVars, runs>>

\* a second prover.commit() after the first returned
CommitAgain ==
    /\ pc = "committed"
    /\ \E rd \in get_randomizers(prover) :
         LET r == commit(prover, rd)
         IN  /\ prover' = r.prover
             /\ extra' = Call("commit", None, r, prover)
    /\ pc' = "recommitted"
    /\ UNCHANGED <<stmt, verifier, commitment, challenge, response, result, tampered, sim, buildVars, rangeVars, deriveVars, runs>>

\* a second prover.compute_response(c) with another challenge after the
\* first returned
ComputeResponseAgain ==
    /\ pc = "responded"
    /\ \E c \in Challenges \ {challenge} :
         extra' = Call("compute_response", c, compute_response(prover, c), prover)
    /\ pc' = "reresponded"
    /\ UNCHANGED <<stmt, prover, verifier, commitment, challenge, response, result, tampered, sim, buildVars, rangeVars, deriveVars, runs>>

\* prover.compute_response(c) on a prover that returned no commitment: commit
\* was not called, or it raised
ComputeResponseEarly ==
    /\ pc \in {"fresh", "raised"}
    /\ commitment = None
    /\ \E c \in Challenges :
         extra' = Call("compute_response", c, compute_response(prover, c), prover)
    /\ pc' = "early"
    /\ UNCHANGED <<stmt, prover, verifier, commitment, challenge, response, result, tampered, sim, buildVars, rangeVars, deriveVars, runs>>

\* after the run of an And: verifier.verify(r) for a response r with one
\* scalar replaced
VerifyTamperedAnd ==
    /\ pc = "verified"
    /\ stmt.kind = "And"
    /\ result = TRUE
    /\ \E t \in Tamperings(stmt, response) :
         /\ t.response # response
         /\ tampered' = [response |-> t.response, hit |-> t.hit,
                         result |-> verify(verifier, t.response, None, NoChallenge)]
    /\ pc' = "reverified"
    /\ UNCHANGED <<stmt, prover, verifier, commitment, challenge, response, result, sim, extra, buildVars, rangeVars, deriveVars, runs>>

NextFull ==
    \/ Next
    \/ CommitWith
    \/ CommitAgain
    \/ ComputeResponseAgain
    \/ ComputeResponseEarly
    \/ VerifyTamperedAnd

SpecFull == InitFull /\ [][NextFull]_vars

-----------------------------------------------------------------------------
(* Properties of the protocol run *)

\* the prover was derived with a witness of the statement
HonestProver ==
    /\ prover.kind = "DLRep"
    /\ DOMAIN prover.secret_values # {}
    /\ Satisfies(stmt, prover.secret_values)

\* C1: for a DLRep statement lhs = sum of x_i * G_i and a prover holding those
\* x_i, the run commit -> send_challenge -> compute_response -> verify ends
\* with verify returning true, whatever the randomizers and the challenge
C1_DLRepCompleteness ==
    (stmt.kind = "DLRep" /\ HonestProver /\ pc = "verified") => result = TRUE

\* C1 witness: an accepted run on two terms with a challenge above the order
\* and a nonzero witness
C1_Witness ==
    /\ stmt.kind = "DLRep" /\ HonestProver /\ pc = "verified" /\ result = TRUE
    /\ Len(stmt.secret_names) = 2
    /\ challenge > Order(stmt.generators[1].group)
    /\ \E n \in DOMAIN prover.secret_values : prover.secret_values[n] # 0

\* the two conjuncts of an And share a secret name
SharesSecret(st) ==
    /\ st.kind = "And"
    /\ NameSet(get_secret_names(st.proof1)) \cap NameSet(get_secret_names(st.proof2)) # {}

\* all generators of the statement are in one group
OneGroup(st) ==
    \A i, j \in DOMAIN st.group_generators :
        st.group_generators[i].group = st.group_generators[j].group

\* C2: for an And of two DLRep statements that share a secret name, with the
\* generators in one group and the witness held by the prover, the honest run
\* ends with verify returning true for every randomizer dict and challenge
C2_AndCompleteness ==
    (SharesSecret(stmt) /\ OneGroup(stmt) /\ pc = "verified") => result = TRUE

\* C2 witness: an accepted run of an And with a shared secret whose value is
\* not zero and whose generators are not the identity
C2_Witness ==
    /\ SharesSecret(stmt) /\ OneGroup(stmt) /\ pc = "verified" /\ result = TRUE
    /\ challenge # 0
    /\ \A i \in DOMAIN stmt.group_generators : stmt.group_generators[i].v # 0
    /\ \E n \in NameSet(get_secret_names(stmt.proof1))
                  \cap NameSet(get_secret_names(stmt.proof2)) :
           prover.prover1.secret_values[n] # 0

\* C5: after a run on a DLRep statement that the verifier accepted, a
\* response with one scalar replaced by a different value modulo the order,
\* on a term whose generator is not the identity, makes verify return false
C5_TamperingRejected ==
    (stmt.kind = "DLRep" /\ pc = "reverified" /\ result = TRUE
        /\ tampered.hit # infinite(tampered.hit.group))
        => tampered.result = FALSE

\* C5 witness: scenario S1 (two distinct names, two generators that are not
\* the identity), accepted, then rejected with a tampered response
C5_Witness ==
    /\ stmt.kind = "DLRep" /\ pc = "reverified" /\ result = TRUE
    /\ Len(stmt.secret_names) = 2 /\ stmt.secret_names[1] # stmt.secret_names[2]
    /\ \A i \in DOMAIN stmt.generators : stmt.generators[i].v # 0
    /\ tampered.result = FALSE

\* C6: the transcript simulate_proof returns on a prover without witness
\* satisfies the verifier's equation, so the verifier accepts it; a challenge
\* that was passed in is the one returned; terms that share a secret name
\* get the same response
C6_SimulatedTranscriptVerifies ==
    (pc \in {"simulated", "simverified"} /\ DOMAIN prover.secret_values = {}) =>
        /\ sim.transcript.commitment =
              recompute_commitment(verifier, sim.transcript.challenge,
                                   sim.transcript.response)
        /\ sim.given_challenge # NoChallenge =>
              sim.transcript.challenge = sim.given_challenge
        /\ \A i, j \in DOMAIN stmt.secret_names :
              stmt.secret_names[i] = stmt.secret_names[j] =>
                  sim.transcript.response[i] = sim.transcript.response[j]
        /\ pc = "simverified" => result = TRUE

\* C6 witness: a simulated transcript with a supplied challenge, on a
\* statement that repeats a secret name, was accepted by the verifier
C6_Witness ==
    /\ pc = "simverified" /\ DOMAIN prover.secret_values = {} /\ result = TRUE
    /\ sim.given_challenge # NoChallenge /\ sim.given_challenge # 0
    /\ Len(stmt.secret_names) = 2 /\ stmt.secret_names[1] = stmt.secret_names[2]
    /\ stmt.lhs.v # 0

\* C11 (as claimed): a second commit on the same prover raises, the prover
\* keeps the randomizers of the first commit and no second commitment is
\* returned
C11_SecondCommitRaises ==
    pc = "recommitted" =>
        /\ extra.err # "none"
        /\ extra.value = None
        /\ prover = extra.before

\* some leaf of the prover has a secret name without a value
RECURSIVE LacksWitness(_)
LacksWitness(p) ==
    IF p.kind = "DLRep"
    THEN ~ (NameSet(p.secret_names) \subseteq DOMAIN p.secret_values)
    ELSE LacksWitness(p.prover1) \/ LacksWitness(p.prover2)

RECURSIVE Committed(_)
Committed(p) ==
    IF p.kind = "DLRep"
    THEN {[name |-> p.secret_names[i], k |-> p.ks[i]] : i \in DOMAIN p.ks}
    ELSE Committed(p.prover1) \cup Committed(p.prover2)

\* the commitment that belongs to the randomizers the leaves hold
RECURSIVE CommitmentOf(_)
CommitmentOf(p) ==
    IF p.kind = "DLRep"
    THEN SumProducts(p.ks, p.generators, Len(p.generators),
                     infinite(p.generators[1].group))
    ELSE [commitment1 |-> CommitmentOf(p.prover1),
          commitment2 |-> CommitmentOf(p.prover2)]

\* the terms a prover answered: name, randomizer, response scalar, secret
\* value and the order of the term's group
RECURSIVE Answered(_, _)
Answered(p, resp) ==
    IF p.kind = "DLRep"
    THEN {[name |-> p.secret_names[i], k |-> p.ks[i], s |-> resp[i],
           x |-> p.secret_values[p.secret_names[i]],
           order |-> Order(p.generators[i].group)] : i \in DOMAIN p.ks}
    ELSE Answered(p.prover1, resp.response1) \cup Answered(p.prover2, resp.response2)

\* C13: in one run all terms with the same secret name, in one DLRep and
\* across the conjuncts of an And (nested ones too), are committed with one
\* randomizer k, the commitment is built from it, and the response of each
\* such term is k + c * x modulo the order
C13_RandomizerSharing ==
    /\ pc \in {"committed", "challenged", "responded", "verified", "reverified"} =>
          /\ \A t, u \in Committed(prover) : t.name = u.name => t.k = u.k
          /\ commitment = CommitmentOf(prover)
    /\ pc \in {"responded", "verified", "reverified"} =>
          \A t \in Answered(prover, response) :
              t.s = (t.k + challenge * t.x) % t.order

\* C13 witness: a nested And whose three leaves share one secret was answered
\* with a randomizer, a challenge and a secret value that are not zero
C13_Witness ==
    /\ pc = "verified" /\ result = TRUE
    /\ stmt.kind = "And" /\ stmt.proof1.kind = "And"
    /\ Cardinality(NameSet(stmt.secret_names)) = 1
    /\ challenge # 0
    /\ \A t \in Answered(prover, response) : t.k # 0 /\ t.x # 0 /\ t.s # t.k

\* the challenge a verifier stored in send_challenge
StoredChallenge(v) == IF v.kind = "DLRep" THEN v.challenge ELSE v.and_challenge

\* every leaf verifier finds that resp, its part of the response, and c
\* recompute com, its part of the commitment
RECURSIVE EveryChildVerifies(_, _, _, _)
EveryChildVerifies(v, resp, com, c) ==
    IF v.kind = "DLRep" THEN recompute_commitment(v, c, resp) = com
    ELSE /\ EveryChildVerifies(v.verifier1, resp.response1, com.commitment1, c)
         /\ EveryChildVerifies(v.verifier2, resp.response2, com.commitment2, c)

\* C14: send_challenge of an And verifier stores the commitment and stores
\* and returns the challenge generated for its first child; verify without
\* explicit commitment or challenge returns true exactly when every child
\* verifies its part of the response against its part of the stored
\* commitment under that one challenge
C14_ChallengeSharing ==
    (stmt # None /\ stmt.kind = "And") =>
        /\ pc \in {"challenged", "responded", "verified", "reverified"} =>
              /\ verifier.and_challenge = challenge
              /\ StoredChallenge(verifier.verifier1) = challenge
              /\ verifier.commitment = commitment
        /\ pc \in {"verified", "reverified"} =>
              (result = TRUE <=>
                  EveryChildVerifies(verifier, response, verifier.commitment,
                                     verifier.and_challenge))
        /\ pc = "reverified" =>
              (tampered.result = TRUE <=>
                  EveryChildVerifies(verifier, tampered.response, verifier.commitment,
                                     verifier.and_challenge))

\* C14 witness: an And verifier accepted a response under a challenge that
\* is not zero and refused it with the part of its second child changed
C14_Witness ==
    /\ stmt.kind = "And" /\ pc = "reverified"
    /\ challenge # 0 /\ verifier.and_challenge = challenge
    /\ result = TRUE /\ tampered.result = FALSE
    /\ tampered.response.response1 = response.response1
    /\ tampered.response.response2 # response.response2

\* C15 (as claimed): a second compute_response with another challenge on
\* the randomizers of the same commit returns no response
C15_OneResponsePerCommit ==
    pc = "reresponded" =>
        /\ extra.err # "none"
        /\ extra.value = None

\* C16: compute_response on a prover that has not committed (a DLRep prover,
\* or an And prover one of whose children has not) raises and returns no
\* response scalars, and before compute_response has answered the challenge
\* the run holds no response
C16_NoResponseBeforeCommit ==
    /\ pc = "early" =>
          /\ extra.call = "compute_response"
          /\ extra.err # "none"
          /\ extra.value = None
    /\ pc \in {"fresh", "raised", "early", "committed", "recommitted", "challenged"} =>
          response = None

\* C16 witness: commit of an And prover raised after its first child had
\* committed, and compute_response raised on the second child
C16_Witness ==
    /\ pc = "early" /\ prover.kind = "And"
    /\ prover.prover1.kind = "DLRep" /\ prover.prover1.has_ks
    /\ prover.prover2.kind = "DLRep" /\ ~ prover.prover2.has_ks
    /\ extra.err = "AttributeError" /\ extra.value = None
    /\ response = None

-----------------------------------------------------------------------------
(* Building statements: a script that constructs DLRep statements and       *)
(* composes the objects it holds with AndProof(a, b) or a & b               *)

\* most DLRep statements one script constructs
MaxLeaves == 2
\* most statement objects one script constructs
MaxObjects == 4

\* the points the script passes to the constructors: two of one group and
\* one of another
BuildPoints == {Point(1, 1), Point(1, 2), Point(2, 1)}

\* the points the script passes as lhs: one of each group
LhsPoints == {Point(G, 1) : G \in Groups}

NameCode(n) == IF n = "x" THEN 1 ELSE 2

RECURSIVE PointCodes(_)
PointCodes(pts) ==
    IF pts = <<>> THEN <<>>
    ELSE <<Head(pts).group, Head(pts).v>> \o PointCodes(Tail(pts))

\* statement.get_proof_id(): the canonical encoding of the statement tree
\* that the digest is taken of: node kind, children in order, every
\* generator with its group, the secret names, lhs
RECURSIVE get_proof_id(_)
get_proof_id(self) ==
    IF self.kind = "DLRep"
    THEN <<1, Len(self.generators), self.lhs.group, self.lhs.v>>
            \o PointCodes(self.generators)
            \o [i \in DOMAIN self.secret_names |-> NameCode(self.secret_names[i])]
    ELSE <<2>> \o get_proof_id(self.proof1) \o get_proof_id(self.proof2)

ProtocolIdle ==
    /\ stmt = None /\ prover = None /\ verifier = None /\ pc = "idle"
    /\ commitment = None /\ challenge = NoChallenge /\ response = None
    /\ result = None /\ tampered = None /\ sim = None /\ extra = None

InitBuild ==
    /\ ProtocolIdle
    /\ RangeIdle
    /\ DeriveIdle
    /\ heap = <<>>
    /\ last = None

NumLeaves == Cardinality({i \in DOMAIN heap : heap[i].stmt.kind = "DLRep"})

\* the constructor call is over: the object, if one was made, is on the heap
Constructed(op, args, r) ==
    /\ heap' = IF r.err = "none"
               THEN Append(heap, [stmt |-> r.value, op |-> op, args |-> args])
               ELSE heap
    /\ last' = [op |-> op, args |-> args, err |-> r.err,
                word |-> IF r.err = "none" THEN "" ELSE r.value,
                before |-> Len(heap),
                made |-> IF r.err = "none" THEN Len(heap) + 1 ELSE 0]

\* DLRep(lhs, expr) with expr a sum of n terms Secret(name) * point; the
\* script constructs its DLRep statements before it composes them
NewDLRep ==
    /\ Len(heap) < MaxObjects
    /\ NumLeaves < MaxLeaves
    /\ NumLeaves = Len(heap)
    /\ \E n \in 0 .. MaxTerms :
         \E lhs \in LhsPoints, gens \in [1 .. n -> BuildPoints],
            names \in [1 .. n -> Names] :
           LET r == DLRepProof(lhs, gens, names)
           IN  Constructed("DLRepProof",
                           [lhs |-> lhs, generators |-> gens, secret_names |-> names],
                           [r EXCEPT !.value = IF r.err = "none" THEN r.value ELSE ""])
    /\ UNCHANGED <<protocolVars, rangeVars, deriveVars, runs>>

\* AndProof(heap[i], heap[j])
NewAndProof ==
    /\ Len(heap) < MaxObjects
    /\ \E i, j \in DOMAIN heap :
         Constructed("AndProof", [left |-> i, right |-> j],
                     AndProof(heap[i].stmt, heap[j].stmt))
    /\ UNCHANGED <<protocolVars, rangeVars, deriveVars, runs>>

\* heap[i] & heap[j]
AndOperator ==
    /\ Len(heap) < MaxObjects
    /\ \E i, j \in DOMAIN heap :
         Constructed("__and__", [left |-> i, right |-> j],
                     And__and__(heap[i].stmt, heap[j].stmt))
    /\ UNCHANGED <<protocolVars, rangeVars, deriveVars, runs>>

NextBuild == NewDLRep \/ NewAndProof \/ AndOperator

SpecBuild == InitBuild /\ [][NextBuild]_vars

-----------------------------------------------------------------------------
(* Properties of statement construction *)

\* the terms of a statement tree, read off its DLRep leaves: which secret
\* name multiplies a generator of which group
RECURSIVE Terms(_)
Terms(st) ==
    IF st.kind = "DLRep"
    THEN {[name |-> st.secret_names[i], group |-> st.generators[i].group] :
            i \in DOMAIN st.secret_names}
    ELSE Terms(st.proof1) \cup Terms(st.proof2)

\* the secret names that occur with generators of two different groups in
\* the composition of a and b
SplitNames(a, b) ==
    {t.name : t \in {t \in Terms(a) \cup Terms(b) :
                        \E u \in Terms(a) \cup Terms(b) :
                            u.name = t.name /\ u.group # t.group}}

LastIsComposition == last # None /\ last.op \in {"AndProof", "__and__"}

\* C3: constructing an And (children that are Ands included) succeeds if and
\* only if no secret name occurs in its children with generators of two
\* different groups; otherwise the constructor raises an error naming such a
\* secret and no statement object exists afterwards
C3_GroupCoherenceAtBuildTime ==
    LastIsComposition =>
        LET a == heap[last.args.left].stmt
            b == heap[last.args.right].stmt
        IN  /\ last.err = "none" <=> SplitNames(a, b) = {}
            /\ last.err = "none" =>
                  /\ last.made = Len(heap) /\ Len(heap) = last.before + 1
                  /\ heap[last.made].stmt.kind = "And"
            /\ last.err # "none" =>
                  /\ last.err = "Exception"
                  /\ last.word \in SplitNames(a, b)
                  /\ last.made = 0 /\ Len(heap) = last.before

\* C3 witness: a composition whose left child is itself an And was refused
\* because a name of the nested And meets a generator of another group
C3_Witness ==
    /\ LastIsComposition /\ last.err = "Exception"
    /\ heap[last.args.left].stmt.kind = "And"
    /\ heap[last.args.right].stmt.kind = "DLRep"
    /\ last.word \in SplitNames(heap[last.args.left].stmt, heap[last.args.right].stmt)

\* C3 witness of the other direction: an And over two groups with no shared
\* name was constructed
C3_WitnessAccepted ==
    /\ LastIsComposition /\ last.err = "none"
    /\ \E t, u \in Terms(heap[last.made].stmt) : t.group # u.group

\* C4 (as claimed): constructing a DLRep fails whenever the term list is
\* empty, or the generators are not all in one group, or the group of lhs
\* differs from the group of the generators, and no statement is produced
C4_DLRepConstructionValidatesGroups ==
    (last # None /\ last.op = "DLRepProof") =>
        LET gens == last.args.generators
        IN  (\/ Len(gens) = 0
             \/ \E i, j \in DOMAIN gens : gens[i].group # gens[j].group
             \/ \E i \in DOMAIN gens : gens[i].group # last.args.lhs.group)
            => (last.err # "none" /\ last.made = 0 /\ Len(heap) = last.before)

\* same relation tree: same node kinds, same children in the same order,
\* same lhs, generators and secret names at the leaves
RECURSIVE SameStatement(_, _)
SameStatement(a, b) ==
    /\ a.kind = b.kind
    /\ IF a.kind = "DLRep"
       THEN /\ a.lhs = b.lhs
            /\ a.generators = b.generators
            /\ a.secret_names = b.secret_names
       ELSE /\ SameStatement(a.proof1, b.proof1)
            /\ SameStatement(a.proof2, b.proof2)

-----------------------------------------------------------------------------
(* zkbuilder/primitives/rangeproof.py *)

\* the value of a Secret() that was given none
NoValue == -1

\* the revealed randomizer, the last entry of a precommitment
Scalar(n) == [scalar |-> n]

\* Bn.num_bits()
RECURSIVE num_bits(_)
num_bits(value) == IF value = 0 THEN 0 ELSE 1 + num_bits(value \div 2)

\* Bn.is_bit_set(b)
is_bit_set(value, b) == (value \div (2 ^ b)) % 2 = 1

\* decompose_into_n_bits padding in front of the bits instead of behind them
Mut_decompose_pad_front(value, n) ==
    LET base == [b \in 1 .. num_bits(value) |->
                    IF is_bit_set(value, b - 1) THEN 1 ELSE 0]
        extra_bits == n - Len(base)
    IN  IF extra_bits < 0 THEN Raised("Exception")
        ELSE Returned([i \in 1 .. extra_bits |-> 0] \o base)

\* decompose_into_n_bits(value, n): least significant bit first
decompose_into_n_bits(value, n) ==
    LET base == [b \in 1 .. num_bits(value) |->
                    IF is_bit_set(value, b - 1) THEN 1 ELSE 0]
        extra_bits == n - Len(base)
    IN  IF extra_bits < 0 THEN Raised("Exception")
        ELSE Returned(base \o [i \in 1 .. extra_bits |-> 0])

\* PowerTwoRangeProof.__init__(com, g, h, nr_bits, value, randomizer) with
\* value and randomizer the values of the two Secrets
PowerTwoRangeProof(com, g, h, nr_bits, value, randomizer) ==
    LET is_prover == value # NoValue /\ randomizer # NoValue
    IN  [com |-> com, g |-> g, h |-> h, nr_bits |-> nr_bits,
         is_prover |-> is_prover,
         secret_vars |-> IF is_prover THEN <<value, randomizer>> ELSE <<>>,
         randomizers |-> [i \in 1 .. nr_bits |-> NoValue],
         precommitment |-> None,
         constructed_proof |-> None]

\* build_constructed_proof with the two simulation marks exchanged
Mut_build_constructed_proof_marks_swapped(self, precommitment) ==
    LET bits == IF self.is_prover
                THEN decompose_into_n_bits(self.secret_vars[1], self.nr_bits).value
                ELSE <<>>
    IN  [self EXCEPT
            !.precommitment = precommitment,
            !.constructed_proof =
                [i \in 1 .. self.nr_bits |->
                    [p0 |-> [lhs |-> precommitment[i],
                             simulation |-> self.is_prover /\ bits[i] = 0],
                     p1 |-> [lhs |-> PtSub(precommitment[i], self.g),
                             simulation |-> self.is_prover /\ bits[i] = 1]]]]

\* PowerTwoRangeProof.build_constructed_proof(precommitment): the statement
\* afterwards; constructed_proof lists, per bit, the lhs of the two disjuncts
\* and their simulation marks
build_constructed_proof(self, precommitment) ==
    LET bits == IF self.is_prover
                THEN decompose_into_n_bits(self.secret_vars[1], self.nr_bits).value
                ELSE <<>>
    IN  [self EXCEPT
            !.precommitment = precommitment,
            !.constructed_proof =
                [i \in 1 .. self.nr_bits |->
                    [p0 |-> [lhs |-> precommitment[i],
                             simulation |-> self.is_prover /\ bits[i] = 1],
                     p1 |-> [lhs |-> PtSub(precommitment[i], self.g),
                             simulation |-> self.is_prover /\ bits[i] = 0]]]]

\* the loop of internal_precommit that sums r_i * 2^i modulo the order
RECURSIVE SumRandomizers(_, _, _)
SumRandomizers(rs, n, order) ==
    IF n = 0 THEN 0
    ELSE (SumRandomizers(rs, n - 1, order) + rs[n] * 2 ^ (n - 1)) % order

\* internal_precommit ending with mod_add instead of mod_sub
Mut_internal_precommit_add(proof, draws) ==
    LET order == Order(proof.g.group)
        bits == decompose_into_n_bits(proof.secret_vars[1], proof.nr_bits)
    IN  IF bits.err # "none" THEN [err |-> bits.err, value |-> None, proof |-> proof]
        ELSE [err |-> "none",
              value |-> [i \in 1 .. proof.nr_bits |->
                            PtAdd(PtMul(bits.value[i], proof.g), PtMul(draws[i], proof.h))]
                        \o <<Scalar((SumRandomizers(draws, proof.nr_bits, order)
                                        + proof.secret_vars[2]) % order)>>,
              proof |-> [proof EXCEPT !.randomizers = draws]]

\* internal_precommit assigning the randomizers before it decomposes the value
Mut_internal_precommit_assign_first(proof, draws) ==
    LET order == Order(proof.g.group)
        bits == decompose_into_n_bits(proof.secret_vars[1], proof.nr_bits)
        assigned == [proof EXCEPT !.randomizers = draws]
    IN  IF bits.err # "none" THEN [err |-> bits.err, value |-> None, proof |-> assigned]
        ELSE [err |-> "none",
              value |-> [i \in 1 .. proof.nr_bits |->
                            PtAdd(PtMul(bits.value[i], proof.g), PtMul(draws[i], proof.h))]
                        \o <<Scalar((SumRandomizers(draws, proof.nr_bits, order)
                                        - proof.secret_vars[2]) % order)>>,
              proof |-> assigned]

\* PowerTwoRangeProver.internal_precommit() with draws the values
\* order.random() returns: the outcome and the statement afterwards
internal_precommit(proof, draws) ==
    LET order == Order(proof.g.group)
        bits == decompose_into_n_bits(proof.secret_vars[1], proof.nr_bits)
    IN  IF bits.err # "none" THEN [err |-> bits.err, value |-> None, proof |-> proof]
        ELSE [err |-> "none",
              value |-> [i \in 1 .. proof.nr_bits |->
                            PtAdd(PtMul(bits.value[i], proof.g), PtMul(draws[i], proof.h))]
                        \o <<Scalar((SumRandomizers(draws, proof.nr_bits, order)
                                        - proof.secret_vars[2]) % order)>>,
              proof |-> [proof EXCEPT !.randomizers = draws]]

\* the loop of check_adequate_lhs over precommitment[from .. n]
RECURSIVE Combined(_, _, _, _)
Combined(pre, from, n, G) ==
    IF n < from THEN infinite(G)
    ELSE PtAdd(Combined(pre, from, n - 1, G), PtMul(2 ^ (n - 1), pre[n]))

\* check_adequate_lhs leaving the first bit commitment out of the sum
Mut_check_adequate_lhs_skip_first(self) ==
    Combined(self.precommitment, 2, self.nr_bits, self.g.group)
        = PtAdd(self.com, PtMul(self.precommitment[self.nr_bits + 1].scalar, self.h))

\* PowerTwoRangeProof.check_adequate_lhs()
check_adequate_lhs(self) ==
    LET rand == self.precommitment[self.nr_bits + 1].scalar
        combined == Combined(self.precommitment, 1, self.nr_bits, self.g.group)
    IN  combined = PtAdd(self.com, PtMul(rand, self.h))

-----------------------------------------------------------------------------
(* The range proof up to the verifier's post-check: main() of rangeproof.py  *)

\* most bits of a range statement
MaxBits == 3

\* the range proof runs in an elliptic-curve group, whose order is an odd prime
RangeGroups == {G \in Groups : Order(G) % 2 = 1}

\* proof and proof_prime of main(): the same public data, the Secrets with
\* values on the prover's side only; com is any point of the group, the
\* Pedersen commitment value * g + randomizer * h among them
InitRange ==
    /\ ProtocolIdle
    /\ DeriveIdle
    /\ heap = <<>> /\ last = None
    /\ \E G \in RangeGroups :
         \E g \in Generators(G), h \in Generators(G), com \in Points(G),
            nr_bits \in 1 .. MaxBits, value \in 0 .. 2 ^ MaxBits,
            randomizer \in 0 .. Order(G) - 1 :
           /\ rproof = PowerTwoRangeProof(com, g, h, nr_bits, value, randomizer)
           /\ vproof = PowerTwoRangeProof(com, g, h, nr_bits, NoValue, NoValue)
    /\ rpc = "fresh"
    /\ wire = None
    /\ adequate = None

\* prov.precommit(): internal_precommit, then the prover's statement builds
\* its constructed proof from the precommitment, which is sent
Precommit ==
    /\ rpc = "fresh"
    /\ \E draws \in [1 .. rproof.nr_bits -> 0 .. Order(rproof.g.group) - 1] :
         LET r == internal_precommit(rproof, draws)
         IN  IF r.err # "none"
             THEN /\ rproof' = r.proof
                  /\ wire' = None
                  /\ rpc' = "raised"
             ELSE /\ rproof' = build_constructed_proof(r.proof, r.value)
                  /\ wire' = [precommitment |-> r.value, sent |-> r.value, changed |-> 0]
                  /\ rpc' = "precommitted"
    /\ UNCHANGED <<vproof, adequate, protocolVars, buildVars, deriveVars, runs>>

\* one bit commitment of the precommitment is replaced by another point of
\* the group before the verifier receives it
TamperPrecommitment ==
    /\ rpc = "precommitted"
    /\ wire.changed = 0
    /\ \E i \in 1 .. rproof.nr_bits :
         \E c \in Points(rproof.g.group) \ {wire.sent[i]} :
           wire' = [wire EXCEPT !.precommitment[i] = c, !.changed = i]
    /\ UNCHANGED <<rproof, vproof, rpc, adequate, protocolVars, buildVars, deriveVars, runs>>

\* ver.process_precommitment(precommitment)
ProcessPrecommitment ==
    /\ rpc = "precommitted"
    /\ vproof' = build_constructed_proof(vproof, wire.precommitment)
    /\ rpc' = "processed"
    /\ UNCHANGED <<rproof, wire, adequate, protocolVars, buildVars, deriveVars, runs>>

\* ver.proof.check_adequate_lhs()
CheckAdequateLhs ==
    /\ rpc = "processed"
    /\ adequate' = check_adequate_lhs(vproof)
    /\ rpc' = "checked"
    /\ UNCHANGED <<rproof, vproof, wire, protocolVars, buildVars, deriveVars, runs>>

NextRange == Precommit \/ TamperPrecommitment \/ ProcessPrecommitment \/ CheckAdequateLhs

SpecRange == InitRange /\ [][NextRange]_vars

-----------------------------------------------------------------------------
(* Properties of the range proof *)

\* com is the Pedersen commitment to the prover's value and randomizer
HonestCom ==
    rproof.com = PtAdd(PtMul(rproof.secret_vars[1], rproof.g),
                       PtMul(rproof.secret_vars[2], rproof.h))

InRange == rproof.secret_vars[1] >= 0 /\ rproof.secret_vars[1] < 2 ^ rproof.nr_bits

\* C7: for 0 <= v < 2^nr_bits and com = v*g + r*h, check_adequate_lhs on the
\* verifier's statement that received the honest prover's precommitment
\* returns true, whatever the bit randomizers
C7_PostCheckCompleteness ==
    (rpc = "checked" /\ wire.changed = 0 /\ InRange /\ HonestCom) => adequate = TRUE

\* C7 witness: the post-check passed for a value with a set bit and a clear
\* bit, with bit randomizers and a com randomizer that are not zero
C7_Witness ==
    /\ rpc = "checked" /\ wire.changed = 0 /\ InRange /\ HonestCom /\ adequate = TRUE
    /\ rproof.nr_bits = MaxBits /\ rproof.secret_vars[1] = 2 ^ (MaxBits - 1) + 1
    /\ rproof.secret_vars[2] # 0
    /\ \A i \in DOMAIN rproof.randomizers : rproof.randomizers[i] # 0
    /\ rproof.g # rproof.h

\* C8: when the value needs more than nr_bits bits, precommit raises, no
\* precommitment is emitted and no bit randomizer of the statement has been
\* given a value
C8_OutOfRangeRejected ==
    (rpc # "fresh" /\ rproof.secret_vars[1] >= 2 ^ rproof.nr_bits) =>
        /\ rpc = "raised"
        /\ wire = None
        /\ rproof.precommitment = None
        /\ \A i \in DOMAIN rproof.randomizers : rproof.randomizers[i] = NoValue

\* C8 witness: precommit raised for the least value that does not fit
C8_Witness ==
    /\ rpc = "raised" /\ rproof.nr_bits > 1
    /\ rproof.secret_vars[1] = 2 ^ rproof.nr_bits
    /\ wire = None

\* C9: when one bit commitment of a precommitment that passes
\* check_adequate_lhs is replaced by a different point, the revealed
\* randomizer and com unchanged, check_adequate_lhs returns false
C9_TamperedBitCommitmentFails ==
    (/\ rpc = "checked" /\ wire.changed # 0
     /\ check_adequate_lhs([vproof EXCEPT !.precommitment = wire.sent]))
        => adequate = FALSE

\* C9 witness: C_0 of a passing precommitment for a value whose bit 0 is
\* clear was replaced, and the post-check failed
C9_Witness ==
    /\ rpc = "checked" /\ wire.changed = 1 /\ adequate = FALSE
    /\ check_adequate_lhs([vproof EXCEPT !.precommitment = wire.sent])
    /\ rproof.nr_bits > 1 /\ InRange /\ ~ is_bit_set(rproof.secret_vars[1], 0)

\* bit i of v, counted from 0 at the least significant end
BitOf(v, i) == (v \div 2 ^ i) % 2

\* the sum of 2^(i-1) * rs[i] over i in 1 .. n, as an integer
RECURSIVE WeightedSum(_, _)
WeightedSum(rs, n) == IF n = 0 THEN 0 ELSE WeightedSum(rs, n - 1) + 2 ^ (n - 1) * rs[n]

\* C21: the precommitment the honest prover emits has nr_bits + 1 entries;
\* entry i < nr_bits is b_i*g + r_i*h with b_i bit i of the value (least
\* significant first, zero above the value's length) and r_i the value the
\* statement's i-th randomizer now holds; the last entry is
\* ((sum of 2^i * r_i) - r) mod order with r the randomizer of com
C21_PrecommitmentShape ==
    (rpc \in {"precommitted", "processed", "checked"}) =>
        LET n == rproof.nr_bits
            v == rproof.secret_vars[1]
            order == Order(rproof.g.group)
        IN  /\ Len(wire.sent) = n + 1
            /\ \A i \in 1 .. n :
                 /\ rproof.randomizers[i] \in 0 .. order - 1
                 /\ wire.sent[i] = PtAdd(PtMul(BitOf(v, i - 1), rproof.g),
                                         PtMul(rproof.randomizers[i], rproof.h))
            /\ wire.sent[n + 1] =
                 Scalar((WeightedSum(rproof.randomizers, n) - rproof.secret_vars[2]) % order)

\* C21 witness: a precommitment was emitted for a value with a clear low bit,
\* a set bit and a padded high bit, with randomizers that are not zero and
\* not all equal
C21_Witness ==
    /\ rpc = "precommitted"
    /\ rproof.nr_bits = MaxBits /\ rproof.secret_vars[1] = 2
    /\ rproof.secret_vars[2] # 0
    /\ \A i \in DOMAIN rproof.randomizers : rproof.randomizers[i] # 0
    /\ rproof.randomizers[1] # rproof.randomizers[2]
    /\ rproof.g # rproof.h
    /\ Len(wire.sent) = MaxBits + 1

\* the relation lhs = r * h of a disjunct holds
RelationHolds(d, r, h) == d.lhs = PtMul(r, h)

\* C22: in the prover's constructed proof after precommit, per bit i exactly
\* one disjunct is real: the left one, on C_i, if and only if b_i = 0, the
\* right one, on C_i - g, if and only if b_i = 1, and the relation
\* lhs = r_i*h of the real disjunct holds for the precommitted r_i
C22_OneRealDisjunctPerBit ==
    (rpc \in {"precommitted", "processed", "checked"}) =>
        /\ rproof.precommitment = wire.sent
        /\ DOMAIN rproof.constructed_proof = 1 .. rproof.nr_bits
        /\ \A i \in 1 .. rproof.nr_bits :
             LET d == rproof.constructed_proof[i]
                 b == BitOf(rproof.secret_vars[1], i - 1)
                 r == rproof.randomizers[i]
             IN  /\ d.p0.lhs = wire.sent[i]
                 /\ d.p1.lhs = PtSub(wire.sent[i], rproof.g)
                 /\ d.p0.simulation # d.p1.simulation
                 /\ (~ d.p0.simulation) <=> (b = 0)
                 /\ (~ d.p1.simulation) <=> (b = 1)
                 /\ (~ d.p0.simulation) => RelationHolds(d.p0, r, rproof.h)
                 /\ (~ d.p1.simulation) => RelationHolds(d.p1, r, rproof.h)

\* C22 witness: the constructed proof of a value with a set and a clear bit:
\* one bit whose left disjunct is real and one whose right disjunct is real,
\* and the simulated disjunct of a bit has a relation that does not hold
C22_Witness ==
    /\ rpc = "precommitted" /\ rproof.nr_bits > 1
    /\ rproof.constructed_proof # None
    /\ \E i, j \in 1 .. rproof.nr_bits :
         /\ ~ rproof.constructed_proof[i].p0.simulation
         /\ ~ rproof.constructed_proof[j].p1.simulation
         /\ rproof.randomizers[i] # 0 /\ rproof.randomizers[j] # 0
         /\ ~ RelationHolds(rproof.constructed_proof[i].p1, rproof.randomizers[i], rproof.h)

-----------------------------------------------------------------------------
(* Statement objects as Python holds them: the secret names and the         *)
(* generators of a statement are list objects, an attribute holds the id of *)
(* its list, and list.extend changes the list in place                      *)

\* most statement objects the script constructs before it calls their methods
MaxObjs == 3
\* most method calls the script makes on them
MaxCalls == 2

\* a new list object holding contents: the store afterwards and the new id
Alloc(h, contents) == [store |-> Append(h, contents), id |-> Len(h) + 1]

\* list.extend(more) on list id
Extend(h, id, more) == [h EXCEPT ![id] = @ \o more]

\* get_secret_names() of a DLRep statement: a new list of its names in term
\* order
DLRepProof_get_secret_names(h, o) == Alloc(h, h[o.secret_names])

\* the list the attribute group_generators of a child refers to
GroupGeneratorsOf(o) == IF o.kind = "DLRep" THEN o.generators ELSE o.group_generators

RECURSIVE Proof_get_secret_names(_, _, _)
RECURSIVE AndProof_get_secret_names(_, _, _, _)

\* AndProof.get_secret_names on the And of objects p1 and p2: the list that
\* proof1.get_secret_names() returned is extended and returned
AndProof_get_secret_names(h, os, p1, p2) ==
    LET secrets == Proof_get_secret_names(h, os, p1)
        other == Proof_get_secret_names(secrets.store, os, p2)
    IN  [store |-> Extend(other.store, secrets.id, other.store[other.id]),
         id |-> secrets.id]

\* sub_proof.get_secret_names() on object i
Proof_get_secret_names(h, os, i) ==
    IF os[i].kind = "DLRep" THEN DLRepProof_get_secret_names(h, os[i])
    ELSE AndProof_get_secret_names(h, os, os[i].proof1, os[i].proof2)

\* get_generators extending the list of its first child instead of a copy
Mut_get_generators_no_copy(h, os, p1, p2) ==
    LET other == Alloc(h, h[GroupGeneratorsOf(os[p2])])
    IN  [store |-> Extend(other.store, GroupGeneratorsOf(os[p1]), other.store[other.id]),
         id |-> GroupGeneratorsOf(os[p1])]

\* get_generators starting from the generators of its second child
Mut_get_generators_swapped(h, os, p1, p2) ==
    LET generators == Alloc(h, h[GroupGeneratorsOf(os[p2])])
        other == Alloc(generators.store, generators.store[GroupGeneratorsOf(os[p1])])
    IN  [store |-> Extend(other.store, generators.id, other.store[other.id]),
         id |-> generators.id]

\* AndProof.get_generators on the And of objects p1 and p2: a copy of the
\* first child's group_generators, extended by a copy of the second child's
AndProof_get_generators(h, os, p1, p2) ==
    LET generators == Alloc(h, h[GroupGeneratorsOf(os[p1])])
        other == Alloc(generators.store, generators.store[GroupGeneratorsOf(os[p2])])
    IN  [store |-> Extend(other.store, generators.id, other.store[other.id]),
         id |-> generators.id]

\* AndProof.__init__(proof1, proof2) on objects p1 and p2: the outcome, the
\* new object and the store afterwards
AndProof_init(h, os, p1, p2) ==
    LET g == AndProof_get_generators(h, os, p1, p2)
        n == AndProof_get_secret_names(g.store, os, p1, p2)
        chk == check_groups(n.store[n.id], n.store[g.id])
    IN  [err |-> chk.err,
         value |-> IF chk.err # "none" THEN None
                   ELSE [kind |-> "And", proof1 |-> p1, proof2 |-> p2,
                         group_generators |-> g.id, secret_names |-> n.id],
         store |-> n.store]

\* the statement object i as the methods read it now: every list id replaced
\* by what the list holds
RECURSIVE Deref(_, _, _)
Deref(h, os, i) ==
    IF os[i].kind = "DLRep"
    THEN [kind |-> "DLRep", generators |-> h[os[i].generators],
          secret_names |-> h[os[i].secret_names], lhs |-> os[i].lhs,
          simulate |-> os[i].simulate]
    ELSE [kind |-> "And", proof1 |-> Deref(h, os, os[i].proof1),
          proof2 |-> Deref(h, os, os[i].proof2),
          group_generators |-> h[os[i].group_generators],
          secret_names |-> h[os[i].secret_names]]

\* get_prover(secrets_dict) on object i: sub_proof_prover asks each child for
\* its names before it derives the child's prover
RECURSIVE Proof_get_prover(_, _, _, _)
Proof_get_prover(h, os, i, secrets_dict) ==
    IF os[i].kind = "DLRep"
    THEN LET r == DLRep_get_prover(Deref(h, os, i), secrets_dict)
         IN  [err |-> r.err, value |-> r.value, store |-> h]
    ELSE LET n1 == Proof_get_secret_names(h, os, os[i].proof1)
             r1 == Proof_get_prover(n1.store, os, os[i].proof1,
                       Restrict(secrets_dict, NameSet(n1.store[n1.id])))
         IN  IF r1.err # "none" THEN r1
             ELSE LET n2 == Proof_get_secret_names(r1.store, os, os[i].proof2)
                      r2 == Proof_get_prover(n2.store, os, os[i].proof2,
                                Restrict(secrets_dict, NameSet(n2.store[n2.id])))
                  IN  IF r2.err # "none" THEN r2
                      ELSE [err |-> "none",
                            value |-> [kind |-> "And", prover1 |-> r1.value,
                                       prover2 |-> r2.value],
                            store |-> r2.store]

\* get_verifier() on object i
Proof_get_verifier(h, os, i) == get_verifier(Deref(h, os, i))

-----------------------------------------------------------------------------
(* Calling the methods of statement objects: a script that constructs DLRep *)
(* and And statements and calls their methods                               *)

InitDerive ==
    /\ ProtocolIdle
    /\ RangeIdle
    /\ heap = <<>> /\ last = None
    /\ DeriveIdle

\* the store after a call whose new lists no object refers to: the lists
\* that existed before the call, as the call left them
Kept(h) == SubSeq(h, 1, Len(store))

\* the method calls made so far
NumCalls == IF ret = None THEN 0 ELSE ret.n

\* the record of a call on object i (0: a constructor call that made none)
Ret(name, i, arg, err, value, n) ==
    [call |-> name, on |-> i, arg |-> arg, err |-> err, value |-> value, n |-> n]

\* every secrets_dict the script passes to get_prover
DeriveSecrets == UNION {[S -> {1}] : S \in SUBSET Names}

\* DLRep(lhs, expr) accepted by the constructor: the lists of generators and
\* names become the attributes of the new object; the generators of one
\* statement are distinct points (g0, g1, ... of the example) and the script
\* constructs its DLRep statements before it composes them
NewDLRepObject ==
    /\ Len(objs) < MaxObjs
    /\ \A i \in DOMAIN objs : objs[i].kind = "DLRep"
    /\ Len(objs) < MaxLeaves
    /\ \E n \in 1 .. MaxTerms :
         \E gens \in [1 .. n -> BuildPoints], names \in [1 .. n -> Names] :
           LET r == DLRepProof(Point(gens[1].group, 1), gens, names)
               g == Alloc(store, gens)
               s == Alloc(g.store, names)
           IN  /\ \A a, b \in 1 .. n : a < b => gens[a].v < gens[b].v
               /\ r.err = "none"
               /\ store' = s.store
               /\ objs' = Append(objs, [r.value EXCEPT !.generators = g.id,
                                                       !.secret_names = s.id])
               /\ made' = Append(made, [secret_names |-> names, generators |-> gens])
               /\ ret' = Ret("DLRepProof", Len(objs) + 1, None, "none", None, NumCalls)
    /\ UNCHANGED <<protocolVars, buildVars, rangeVars, runs>>

\* AndProof(objs[i], objs[j])
NewAndObject ==
    /\ Len(objs) < MaxObjs
    /\ \E i, j \in DOMAIN objs :
         LET r == AndProof_init(store, objs, i, j)
         IN  /\ store' = IF r.err = "none" THEN r.store ELSE Kept(r.store)
             /\ IF r.err = "none"
                THEN /\ objs' = Append(objs, r.value)
                     /\ made' = Append(made,
                                  [secret_names |-> r.store[r.value.secret_names],
                                   generators |-> r.store[r.value.group_generators]])
                     /\ ret' = Ret("AndProof", Len(objs) + 1, <<i, j>>, "none", None,
                                   NumCalls)
                ELSE /\ UNCHANGED <<objs, made>>
                     /\ ret' = Ret("AndProof", 0, <<i, j>>, r.err, None, NumCalls)
    /\ UNCHANGED <<protocolVars, buildVars, rangeVars, runs>>

\* objs[i].get_secret_names()
GetSecretNames ==
    /\ NumCalls < MaxCalls
    /\ \E i \in DOMAIN objs :
         LET r == Proof_get_secret_names(store, objs, i)
         IN  /\ store' = Kept(r.store)
             /\ ret' = Ret("get_secret_names", i, None, "none", r.store[r.id],
                           NumCalls + 1)
    /\ UNCHANGED <<objs, made, protocolVars, buildVars, rangeVars, runs>>

\* objs[i].get_generators() on an And statement
GetGenerators ==
    /\ NumCalls < MaxCalls
    /\ \E i \in DOMAIN objs :
         /\ objs[i].kind = "And"
         /\ LET r == AndProof_get_generators(store, objs, objs[i].proof1, objs[i].proof2)
            IN  /\ store' = Kept(r.store)
                /\ ret' = Ret("get_generators", i, None, "none", r.store[r.id],
                              NumCalls + 1)
    /\ UNCHANGED <<objs, made, protocolVars, buildVars, rangeVars, runs>>

\* objs[i].get_prover(secrets_dict)
GetProver ==
    /\ NumCalls < MaxCalls
    /\ \E i \in DOMAIN objs, secrets_dict \in DeriveSecrets :
         LET r == Proof_get_prover(store, objs, i, secrets_dict)
         IN  /\ store' = Kept(r.store)
             /\ ret' = Ret("get_prover", i, secrets_dict, r.err, r.value, NumCalls + 1)
    /\ UNCHANGED <<objs, made, protocolVars, buildVars, rangeVars, runs>>

\* objs[i].get_verifier()
GetVerifier ==
    /\ NumCalls < MaxCalls
    /\ \E i \in DOMAIN objs :
         ret' = Ret("get_verifier", i, None, "none",
                    Proof_get_verifier(store, objs, i), NumCalls + 1)
    /\ UNCHANGED <<store, objs, made, protocolVars, buildVars, rangeVars, runs>>

\* objs[i].set_simulate() on a DLRep statement
SetSimulate ==
    /\ NumCalls < MaxCalls
    /\ \E i \in DOMAIN objs :
         /\ objs[i].kind = "DLRep"
         /\ ~ objs[i].simulate
         /\ objs' = [objs EXCEPT ![i].simulate = TRUE]
         /\ ret' = Ret("set_simulate", i, None, "none", None, NumCalls + 1)
    /\ UNCHANGED <<store, made, protocolVars, buildVars, rangeVars, runs>>

NextDerive ==
    \/ NewDLRepObject
    \/ NewAndObject
    \/ GetSecretNames
    \/ GetGenerators
    \/ GetProver
    \/ GetVerifier
    \/ SetSimulate

SpecDerive == InitDerive /\ [][NextDerive]_vars

-----------------------------------------------------------------------------
(* Properties of the methods of statement objects *)

\* the lists of object i hold what they held when its constructor returned
Unchanged(i) ==
    /\ store[objs[i].secret_names] = made[i].secret_names
    /\ store[GroupGeneratorsOf(objs[i])] = made[i].generators

RECURSIVE TermList(_)
TermList(i) ==
    IF objs[i].kind = "DLRep"
    THEN [k \in DOMAIN made[i].secret_names |->
             [name |-> made[i].secret_names[k], gen |-> made[i].generators[k]]]
    ELSE TermList(objs[i].proof1) \o TermList(objs[i].proof2)

\* C18: the secret_names of an And are its children's secret names
\* concatenated and its generators its children's generators concatenated,
\* in declaration order; the lists have one length and the name at an index
\* is the secret multiplied with the generator at that index
C18_AndListsAreConcatenations ==
    \A i \in DOMAIN objs :
        objs[i].kind = "And" =>
            LET names == store[objs[i].secret_names]
                gens == store[objs[i].group_generators]
                a == objs[objs[i].proof1]
                b == objs[objs[i].proof2]
            IN  /\ names = store[a.secret_names] \o store[b.secret_names]
                /\ gens = store[GroupGeneratorsOf(a)] \o store[GroupGeneratorsOf(b)]
                /\ Len(names) = Len(gens)
                /\ [k \in DOMAIN names |-> [name |-> names[k], gen |-> gens[k]]]
                      = TermList(i)

\* C18 witness: an And of an And and a DLRep with two terms, over different
\* names and generators
C18_Witness ==
    \E i \in DOMAIN objs :
        /\ objs[i].kind = "And"
        /\ objs[objs[i].proof1].kind = "And" /\ objs[objs[i].proof2].kind = "DLRep"
        /\ Len(store[objs[objs[i].proof2].secret_names]) = 2
        /\ \E k, l \in DOMAIN TermList(i) :
              TermList(i)[k].name # TermList(i)[l].name
              /\ TermList(i)[k].gen # TermList(i)[l].gen

\* a prover object: a DLRepProver or an AndProofProver
IsProver(v) ==
    /\ v # None
    /\ \/ v.kind = "DLRep" /\ "secret_values" \in DOMAIN v
       \/ v.kind = "And" /\ "prover1" \in DOMAIN v

\* a prover with an empty witness
RECURSIVE IsSimulator(_)
IsSimulator(v) ==
    /\ IsProver(v)
    /\ IF v.kind = "DLRep" THEN DOMAIN v.secret_values = {}
       ELSE IsSimulator(v.prover1) /\ IsSimulator(v.prover2)

\* C20 (as claimed): whenever get_prover returns, it returns a prover; with
\* an empty secrets mapping, or on a statement marked simulated, it returns a
\* simulator and does not raise
C20_GetProverReturnsProver ==
    (ret # None /\ ret.call = "get_prover") =>
        /\ ret.err = "none" => IsProver(ret.value)
        /\ (\/ DOMAIN ret.arg = {}
            \/ objs[ret.on].kind = "DLRep" /\ objs[ret.on].simulate)
           => (ret.err = "none" /\ IsSimulator(ret.value))

\* the names of the DLRep statement object i
NamesOf(i) == NameSet(store[objs[i].secret_names])

\* the call returned a DLRepProver for object i that holds, for every term,
\* the value the mapping gave for the term's name
HoldsEveryTerm(i, secrets_dict, v) ==
    /\ IsProver(v) /\ v.kind = "DLRep"
    /\ v.secret_names = store[objs[i].secret_names]
    /\ v.generators = store[objs[i].generators]
    /\ \A k \in DOMAIN v.secret_names :
         /\ v.secret_names[k] \in DOMAIN v.secret_values
         /\ v.secret_values[v.secret_names[k]] = secrets_dict[v.secret_names[k]]

\* C23: DLRepProof.get_prover with a non-empty secrets mapping, on a
\* statement not marked simulated: when the keys are not exactly the distinct
\* secret names of the statement it raises and returns no prover, when they
\* are it returns a prover holding a value for every term
C23_GetProverKeySet ==
    (/\ ret # None /\ ret.call = "get_prover"
     /\ objs[ret.on].kind = "DLRep" /\ ~ objs[ret.on].simulate
     /\ DOMAIN ret.arg # {}) =>
        IF DOMAIN ret.arg = NamesOf(ret.on)
        THEN ret.err = "none" /\ HoldsEveryTerm(ret.on, ret.arg, ret.value)
        ELSE ret.err = "Exception" /\ ret.value = None

\* C23 witness: get_prover raised for a mapping with as many keys as the
\* statement has names, one of them not a name of the statement
C23_Witness ==
    /\ ret # None /\ ret.call = "get_prover" /\ ret.err = "Exception"
    /\ objs[ret.on].kind = "DLRep" /\ ~ objs[ret.on].simulate
    /\ Cardinality(DOMAIN ret.arg) = Cardinality(NamesOf(ret.on))
    /\ DOMAIN ret.arg # NamesOf(ret.on)
    /\ Len(store[objs[ret.on].secret_names]) = MaxTerms
    /\ ret.value = None

-----------------------------------------------------------------------------
(* Two protocol runs over one statement object, each with the prover and    *)
(* the verifier it got from get_prover and get_verifier; their steps        *)
(* interleave in any order                                                  *)

\* the runs that share the statement
NumRuns == 2
\* most distinct secret names in the shared statement
MaxTwoNames == 1

\* the statements the runs share: a DLRep, or a & b as in the example, with
\* lhs computed from the secret values sv
TwoStatements(sv) ==
    LET leaves(most) ==
            UNION {{DLRepProof(Relation(gens, names, sv), gens, names).value :
                       gens \in [1 .. n -> Generators(G)],
                       names \in [1 .. n -> DOMAIN sv]} :
                   G \in Groups, n \in 1 .. most}
        ands == {AndProof(p[1], p[2]).value :
                    p \in {q \in leaves(MaxAndTerms) \X leaves(MaxAndTerms) :
                              AndProof(q[1], q[2]).err = "none"}}
    IN  {st \in leaves(MaxTerms) \cup ands :
            Cardinality(NameSet(st.secret_names)) <= MaxTwoNames}

\* prover i and verifier i are derived from the one statement by calls of
\* their own
InitTwo ==
    /\ \E sv \in [Names -> 0 .. MaxOrder - 1] :
         \E st \in TwoStatements(sv) :
           /\ stmt = st
           /\ runs = [r \in 1 .. NumRuns |->
                        [prover |-> get_prover(st, Restrict(sv, NameSet(st.secret_names))).value,
                         verifier |-> get_verifier(st),
                         pc |-> "fresh", commitment |-> None,
                         challenge |-> NoChallenge, response |-> None,
                         result |-> None]]
    /\ prover = None /\ verifier = None /\ pc = "idle"
    /\ commitment = None /\ challenge = NoChallenge /\ response = None
    /\ result = None /\ tampered = None /\ sim = None /\ extra = None
    /\ heap = <<>> /\ last = None
    /\ RangeIdle
    /\ store = <<>> /\ objs = <<>> /\ made = <<>> /\ ret = None

\* commitment = prover.commit() in one of the runs
RunCommit ==
    /\ \E r \in DOMAIN runs :
         /\ runs[r].pc = "fresh"
         /\ \E rd \in get_randomizers(runs[r].prover) :
              LET c == commit(runs[r].prover, rd)
              IN  runs' = [runs EXCEPT ![r].prover = c.prover,
                                       ![r].commitment = c.value,
                                       ![r].pc = IF c.err = "none" THEN "committed"
                                                 ELSE "raised"]
    /\ UNCHANGED <<protocolVars, buildVars, rangeVars, deriveVars>>

\* challenge = verifier.send_challenge(commitment) in one of the runs
RunSendChallenge ==
    /\ \E r \in DOMAIN runs :
         /\ runs[r].pc = "committed"
         /\ \E c \in Challenges :
              runs' = [runs EXCEPT
                         ![r].verifier = send_challenge(@, runs[r].commitment, c),
                         ![r].challenge = c,
                         ![r].pc = "challenged"]
    /\ UNCHANGED <<protocolVars, buildVars, rangeVars, deriveVars>>

\* response = prover.compute_response(challenge) in one of the runs
RunComputeResponse ==
    /\ \E r \in DOMAIN runs :
         /\ runs[r].pc = "challenged"
         /\ LET a == compute_response(runs[r].prover, runs[r].challenge)
            IN  runs' = [runs EXCEPT ![r].response = a.value,
                                     ![r].pc = IF a.err = "none" THEN "responded"
                                               ELSE "raised"]
    /\ UNCHANGED <<protocolVars, buildVars, rangeVars, deriveVars>>

\* verifier.verify(response) in one of the runs
RunVerify ==
    /\ \E r \in DOMAIN runs :
         /\ runs[r].pc = "responded"
         /\ runs' = [runs EXCEPT
                       ![r].result = verify(runs[r].verifier, runs[r].response, None,
                                            NoChallenge),
                       ![r].pc = "verified"]
    /\ UNCHANGED <<protocolVars, buildVars, rangeVars, deriveVars>>

NextTwo ==
    \/ RunCommit
    \/ RunSendChallenge
    \/ RunComputeResponse
    \/ RunVerify

SpecTwo == InitTwo /\ [][NextTwo]_vars

\* C19: two runs over one DLRep or And statement object, each with a prover
\* and a verifier of its own, raise nothing and both end with verify
\* returning true, in whatever order their steps are taken
C19_ConcurrentRunsVerify ==
    \A r \in DOMAIN runs :
        /\ runs[r].pc # "raised"
        /\ runs[r].pc = "verified" => runs[r].result = TRUE

\* C19 witness: both runs over one And statement were accepted, with
\* different commitments and different challenges that are not zero, on a
\* secret that is not zero
C19_Witness ==
    /\ runs # <<>> /\ stmt.kind = "And"
    /\ \A r \in DOMAIN runs : runs[r].pc = "verified" /\ runs[r].result = TRUE
    /\ runs[1].commitment # runs[2].commitment
    /\ runs[1].challenge # runs[2].challenge
    /\ runs[1].challenge # 0 /\ runs[2].challenge # 0
    /\ \A n \in DOMAIN runs[1].prover.prover1.secret_values :
          runs[1].prover.prover1.secret_values[n] # 0

====
